---- MODULE Spec2Model ----
(***************************************************************************)
(* SmartSpin2k, src/Main.cpp: the positioning loop (SS2K::moveStepper),    *)
(* the shifter interrupt handlers (SS2K::shiftUp / shiftDown / deBounce),  *)
(* the shifter check of SS2K::maintenanceLoop, the thermal guard           *)
(* (SS2K::checkDriverTemperature), the auxiliary serial framer            *)
(* (SS2K::checkSerial), the held-shifter rescan gesture                    *)
(* (SS2K::scanIfShiftersHeld), the wireless reconnect check                *)
(* (SS2K::checkBLEReconnect), the scan watchdog and sub-cadence of         *)
(* SS2K::maintenanceLoop and the motor stop (SS2K::motorStop).             *)
(*                                                                         *)
(* Three tasks/interrupt sources share rtConfig and ss2k without locks, so *)
(* every read or write of a shared field made by a loop is one step and    *)
(* the steps of the loops, the handlers and the other writers interleave   *)
(* freely.  The interrupt handlers run to completion (one step each).      *)
(***************************************************************************)
EXTENDS Integers, Sequences, FiniteSets, TLC

(***************************************************************************)
(* Bounds of the model.                                                    *)
(***************************************************************************)
\* millis() runs from 0 to MaxTime
MaxTime == 6
\* SS2K::debounceDelay, in the time unit of the model
DebounceDelay == 2
\* the handlers move shifterPosition at most this far from its first value
MaxShift == 2
\* currentBoard.pwrScaler is one of 1 .. MaxPwrScaler
MaxPwrScaler == 2
\* temperatureRead() returns THROTTLE_TEMP - 1 .. THROTTLE_TEMP + TempSpan
TempSpan == 3
\* at most MaxRead bytes wait on the auxiliary serial port
MaxRead == 8
\* the poll count between two query frames (Constants.h), scaled down
TX_CHECK_INTERVAL == 2
\* the hold count of the rescan gesture (settings.h)
SHIFTERS_HOLD_FOR_SCAN == 2
\* ss2k.scanDelayTime (10 seconds), in the time unit of the model
ScanDelayTime == 4
\* millis() at the last call of scanIfShiftersHeld or tick of the maintenance loop
MaxUptime == 11
\* the invocation count between two reconnect scans (settings.h), scaled down
BLE_RECONNECT_INTERVAL == 3
\* bleCheck is counted up to MaxBleCheck
MaxBleCheck == 5
\* the 6000 ms between two watchdog checks, in ticks of the maintenance loop
WatchdogPeriod == 2

(***************************************************************************)
(* Program constants.                                                      *)
(***************************************************************************)
\* line 436: throttling starts above this temperature
THROTTLE_TEMP == 72
\* line 437: throttledPower is a uint8_t
Uint8Range == 256
\* line 460: bytes that must be available before checkSerial reads
MinAvailable == 8
\* line 228: the slow group runs when loopCounter is above this
LoopCounterLimit == 4
\* lines 468, 470: the sentinels of a frame, and any other byte
HEADER == "HEADER"
FOOTER == "FOOTER"
Bytes == {HEADER, FOOTER, "other"}

(***************************************************************************)
(* Configurations: rtConfig's step bounds and userConfig's shift step and  *)
(* incline multiplier, with the shifterPosition the run starts from.  The  *)
(* first is the scenario of the specification (shifter 50, shift step 2,   *)
(* bounds -100..100), where one more shift exceeds maxStep; in the second  *)
(* one shift goes below minStep and the incline exceeds both bounds.       *)
(***************************************************************************)
Configs ==
    { [minStep |-> -100, maxStep |-> 100, shiftStep |-> 2, inclineMultiplier |-> 3, shifter0 |-> 50],
      [minStep |-> -1,   maxStep |-> 3,   shiftStep |-> 2, inclineMultiplier |-> 1, shifter0 |-> 0] }

\* values rtConfig.setTargetIncline is called with by the BLE/ERG tasks
InclineVals == {-3, 0, 4}

VARIABLES
    \* ---- userConfig / rtConfig (Shared Runtime State) ----
    cfg,               \* minStep, maxStep, shiftStep, inclineMultiplier
    shifterDir,        \* userConfig.getShifterDir(), 0 or 1
    shifterPosition,   \* rtConfig shifterPosition
    targetIncline,     \* rtConfig targetIncline
    ergMode,           \* rtConfig ERGMode
    \* ---- ss2k (Controller State) ----
    targetPosition,
    lastShifterPosition,
    externalControl,
    syncMode,
    lastDebounceTime,
    \* ---- the clock and the stepper ----
    now,               \* millis()
    speed,             \* last stepper->setSpeedInHz: "normal" or "erg"
    calls,             \* the stepper calls of this iteration, in order: op and argument
    \* ---- control state of the two loops ----
    pc,                \* line the positioning loop is at
    mpc,               \* line the maintenance loop is at
    notified,          \* this tick has taken a shift branch (bounds check, notifyShift)
    \* ---- observers ----
    iter,              \* what this positioning iteration read: mode, shifter, incline
    extWrote,          \* targetPosition was written from outside since the loop last assigned it
    trig,              \* the last shifter interrupt: handler, time, outcome
    lastAccept,        \* time of the last interrupt that changed shifterPosition, -1 if none
    \* ---- thermal guard ----
    pwrScaler,         \* currentBoard.pwrScaler
    overTemp,          \* static bool overTemp
    irun,              \* last driver.irun(value)
    thermo,            \* the last invocation: temperature used and what was applied
    \* ---- auxiliary serial framer ----
    pelotonTx,         \* PELOTON_TX
    auxAvail,          \* the bytes waiting on auxSerial
    auxData,           \* auxSerialBuffer.data[0 .. len-1] as the last checkSerial read it
    handed,            \* payloads passed to collectAndSet by the last checkSerial
    txCheck,           \* static int txCheck
    alternate,         \* static bool alternate
    written,           \* query frames written by the last checkSerial
    serialDone,        \* checkSerial has run since the last byte arrived
    polls,             \* polls counted since the last one that wrote a query frame, -1 before the first
    lastFrame,         \* the query frame written last, "none" before the first
    \* ---- held-shifter rescan gesture ----
    shiftersHoldForScan,
    scanDelayStart,
    holdRun,           \* invocations in a row, up to the last one, that found both shifters held
    scanEv,            \* the last invocation: were the shifters held, did it start a scan
    lastScan,          \* millis() of the last scan it started, -1 if none
    prevScan,          \* millis() of the scan before that, -1 if none
    \* ---- wireless reconnect check ----
    bleCheck,          \* static int bleCheck
    bleSince,          \* invocations since the last one that started a scan, -1 before the first
    peers,             \* the configured sensor names and spinBLEClient.connectedHR / connectedPM
    bleEv,             \* the last invocation: did it scan, bleCheck as it found it, invocations since the scan before
    \* ---- scan watchdog and sub-cadence of the maintenance loop ----
    intervalTimer2,    \* static unsigned long intervalTimer2
    isScanning,        \* static bool isScanning
    wd,                \* the last watchdog check: scanning seen, seen on the check before, scan stopped
    auxSerialTxPin,    \* currentBoard.auxSerialTxPin is set: the board has the auxiliary port
    loopCounter,       \* static int loopCounter
    ticks,             \* ticks of the maintenance loop completed since task start
    ran,               \* the functions the last tick called, in order
    \* ---- SS2K::motorStop, called by the other tasks ----
    spc,               \* line the running motorStop is at, "idle" when none runs
    releaseTension,    \* the argument of the running (or last) motorStop
    stopCalls          \* the stepper calls of the running (or last) motorStop, in order

shiftVars == <<shifterPosition, lastDebounceTime>>
posVars   == <<targetPosition, speed, calls, pc, iter, extWrote>>
envVars   == <<targetIncline, ergMode, externalControl, syncMode>>
obsVars   == <<trig, lastAccept>>
maintVars == <<lastShifterPosition, mpc, notified>>
tempVars  == <<pwrScaler, overTemp, irun, thermo>>
serVars   == <<pelotonTx, auxAvail, auxData, handed, txCheck, alternate, written, serialDone, polls, lastFrame>>
scanVars  == <<shiftersHoldForScan, scanDelayStart, holdRun, scanEv, lastScan, prevScan>>
bleVars   == <<bleCheck, bleSince, bleEv, peers>>
wdVars    == <<intervalTimer2, isScanning, wd>>
loopVars  == <<auxSerialTxPin, loopCounter, ticks, ran>>
stopVars  == <<spc, releaseTension, stopCalls>>
supVars   == <<scanVars, bleVars, wdVars, loopVars, stopVars>>
vars == <<cfg, shifterDir, now, shiftVars, posVars, envVars, obsVars, maintVars, tempVars, serVars, supVars>>

minStep == cfg.minStep
maxStep == cfg.maxStep
shiftStep == cfg.shiftStep
inclineMultiplier == cfg.inclineMultiplier

(***************************************************************************)
(* Shift Input Controller                                                  *)
(***************************************************************************)
\* a debounce test that forgets the time of the last trigger
DeBounceNoLast(t, last) == t > DebounceDelay

\* SS2K::deBounce, the test of line 325
DeBounceElapsed(t, last) == (t - last) > DebounceDelay

\* a shift up that ignores the shifter-direction flag
ShiftUpNoDir(pos, dir) == pos - 1

\* shiftUp, line 338: the new shifterPosition
ShiftUpPosition(pos, dir) == pos - 1 + dir * 2

\* shiftDown, line 348: the new shifterPosition
ShiftDownPosition(pos, dir) == pos + 1 - dir * 2

\* Which branch a handler takes: deBounce() is evaluated first (and stamps
\* lastDebounceTime), then getERGMode(), then the pin is read again.
\* pinHigh is the value digitalRead returns.
Outcome(pinHigh) ==
    IF ~DeBounceElapsed(now, lastDebounceTime) THEN "bounced"
    ELSE IF ergMode THEN "erg"
    ELSE IF ~pinHigh THEN "accepted"
    ELSE "spurious"

\* The body of a handler; newPos is the position line 338 / 348 writes.
Handler(pinHigh, newPos) ==
    LET out == Outcome(pinHigh) IN
    /\ lastDebounceTime' = CASE out = "bounced"  -> lastDebounceTime
                             [] out = "spurious" -> 0
                             [] OTHER            -> now
    /\ shifterPosition' = IF out = "accepted" THEN newPos ELSE shifterPosition

InShiftRange(pos) == pos \in (cfg.shifter0 - MaxShift) .. (cfg.shifter0 + MaxShift)

shiftUp(pinHigh) ==
    /\ Handler(pinHigh, ShiftUpPosition(shifterPosition, shifterDir))
    /\ InShiftRange(shifterPosition')

shiftDown(pinHigh) ==
    /\ Handler(pinHigh, ShiftDownPosition(shifterPosition, shifterDir))
    /\ InShiftRange(shifterPosition')

\* the observers of an interrupt
Observe(h, pinHigh) ==
    /\ trig' = [h |-> h, at |-> now, pinHigh |-> pinHigh, out |-> Outcome(pinHigh)]
    /\ lastAccept' = IF Outcome(pinHigh) = "accepted" THEN now ELSE lastAccept

\* the shift-up interrupt
ShiftUp ==
    /\ \E pinHigh \in BOOLEAN : shiftUp(pinHigh)
    /\ UNCHANGED <<cfg, shifterDir, now, posVars, envVars, obsVars, maintVars, tempVars, serVars, supVars>>

\* the shift-down interrupt
ShiftDown ==
    /\ \E pinHigh \in BOOLEAN : shiftDown(pinHigh)
    /\ UNCHANGED <<cfg, shifterDir, now, posVars, envVars, obsVars, maintVars, tempVars, serVars, supVars>>

\* the same interrupts, observed
ShiftUpTraced ==
    /\ \E pinHigh \in BOOLEAN : shiftUp(pinHigh) /\ Observe("up", pinHigh)
    /\ UNCHANGED <<cfg, shifterDir, now, posVars, envVars, maintVars, tempVars, serVars, supVars>>

ShiftDownTraced ==
    /\ \E pinHigh \in BOOLEAN : shiftDown(pinHigh) /\ Observe("down", pinHigh)
    /\ UNCHANGED <<cfg, shifterDir, now, posVars, envVars, maintVars, tempVars, serVars, supVars>>

\* millis() advances
Tick ==
    /\ now < MaxTime
    /\ now' = now + 1
    /\ UNCHANGED <<cfg, shifterDir, shiftVars, posVars, envVars, obsVars, maintVars, tempVars, serVars, supVars>>

\* rtConfig.setERGMode, called by the BLE and ERG tasks
SetERGMode ==
    /\ ergMode' = ~ergMode
    /\ UNCHANGED <<targetIncline, externalControl, syncMode>>
    /\ UNCHANGED <<cfg, shifterDir, now, shiftVars, posVars, obsVars, maintVars, tempVars, serVars, supVars>>

NoTrig == [h |-> "none", at |-> 0, pinHigh |-> TRUE, out |-> "none"]
NoIter == [mode |-> "none", shifter |-> 0, incline |-> 0]
NoThermo == [temp |-> 0, applied |-> "none"]
NoScanEv == [held |-> FALSE, scanned |-> FALSE]
NoBleEv == [scanned |-> FALSE, check |-> 0, gap |-> -1]
NoWd == [seen |-> FALSE, prevSeen |-> FALSE, stopped |-> FALSE]

\* The state after construction (the SS2K constructor, the defaults of
\* rtConfig, the function statics), for the shifter-direction settings dirs,
\* the board power scalers, the PELOTON_TX settings and the boards with or
\* without auxiliary port given.
InitWith(dirs, scalers, txs, auxPins) ==
    /\ cfg \in Configs
    /\ shifterDir \in dirs
    /\ shifterPosition = cfg.shifter0
    /\ lastShifterPosition = cfg.shifter0
    /\ targetIncline = 0
    /\ ergMode = FALSE
    /\ targetPosition = 0
    /\ externalControl = FALSE
    /\ syncMode = FALSE
    /\ lastDebounceTime = 0
    /\ now = 0
    /\ speed = "normal"
    /\ calls = << >>
    /\ pc = "l275"
    /\ mpc = "m190"
    /\ iter = NoIter
    /\ extWrote = FALSE
    /\ trig = NoTrig
    /\ lastAccept = -1
    /\ pwrScaler \in scalers
    /\ overTemp = FALSE
    /\ irun = pwrScaler
    /\ thermo = NoThermo
    /\ pelotonTx \in txs
    /\ auxAvail = << >>
    /\ auxData = << >>
    /\ handed = << >>
    /\ txCheck = TX_CHECK_INTERVAL
    /\ alternate = FALSE
    /\ written = << >>
    /\ serialDone = FALSE
    /\ polls = -1
    /\ lastFrame = "none"
    /\ notified = FALSE
    /\ shiftersHoldForScan = SHIFTERS_HOLD_FOR_SCAN
    /\ scanDelayStart = 0
    /\ holdRun = 0
    /\ scanEv = NoScanEv
    /\ lastScan = -1
    /\ prevScan = -1
    /\ bleCheck = BLE_RECONNECT_INTERVAL
    /\ bleSince = -1
    /\ bleEv = NoBleEv
    /\ peers = [hr |-> "any", pm |-> "any", connectedHR |-> FALSE, connectedPM |-> FALSE]
    /\ intervalTimer2 = 0
    /\ isScanning = FALSE
    /\ wd = NoWd
    /\ auxSerialTxPin \in auxPins
    /\ loopCounter = 0
    /\ ticks = 0
    /\ ran = << >>
    /\ spc = "idle"
    /\ releaseTension = FALSE
    /\ stopCalls = << >>

(***************************************************************************)
(* Writers of the shared state outside Main.cpp (BLE and ERG tasks).       *)
(***************************************************************************)
\* rtConfig.setTargetIncline
SetTargetIncline ==
    /\ \E v \in InclineVals \ {targetIncline} : targetIncline' = v
    /\ UNCHANGED <<ergMode, externalControl, syncMode>>
    /\ UNCHANGED <<cfg, shifterDir, now, shiftVars, posVars, obsVars, maintVars, tempVars, serVars, supVars>>

\* ss2k.externalControl is switched
SetExternalControl ==
    /\ externalControl' = ~externalControl
    /\ UNCHANGED <<targetIncline, ergMode, syncMode>>
    /\ UNCHANGED <<cfg, shifterDir, now, shiftVars, posVars, obsVars, maintVars, tempVars, serVars, supVars>>

\* ss2k.syncMode is switched
SetSyncMode ==
    /\ syncMode' = ~syncMode
    /\ UNCHANGED <<targetIncline, ergMode, externalControl>>
    /\ UNCHANGED <<cfg, shifterDir, now, shiftVars, posVars, obsVars, maintVars, tempVars, serVars, supVars>>

\* positions the external writer sets: at and just outside the step bounds
ExtTargets == {minStep - 1, minStep, maxStep, maxStep + 1}

\* while externalControl is set, the external writer owns ss2k.targetPosition
\* and writes it whenever it likes
ExternalWrite ==
    /\ externalControl
    /\ \E v \in ExtTargets \ {targetPosition} : targetPosition' = v
    /\ extWrote' = TRUE
    /\ UNCHANGED <<speed, calls, pc, iter>>
    /\ UNCHANGED <<cfg, shifterDir, now, shiftVars, envVars, obsVars, maintVars, tempVars, serVars, supVars>>

(***************************************************************************)
(* Actuator Positioning Loop: SS2K::moveStepper, one step per line that    *)
(* reads or writes shared state.                                           *)
(***************************************************************************)
Call(op, arg) == [op |-> op, arg |-> arg]

posFrame == UNCHANGED <<cfg, shifterDir, now, shiftVars, envVars, obsVars, maintVars, tempVars, serVars, supVars>>

\* lines 275-276: a new iteration picks its mode
L275 ==
    /\ pc = "l275"
    /\ IF ~externalControl
       THEN IF ergMode
            THEN pc' = "l279" /\ iter' = [NoIter EXCEPT !.mode = "erg"]
            ELSE pc' = "l283" /\ iter' = [NoIter EXCEPT !.mode = "sim"]
       ELSE pc' = "l288" /\ iter' = [NoIter EXCEPT !.mode = "ext"]
    /\ UNCHANGED <<targetPosition, speed, calls, extWrote>>
    /\ posFrame

\* an ERG target that still adds the shifter offset
ErgTargetWithShifter(incline, shifter) == incline + shifter * shiftStep

\* line 280: the ERG target
ErgTarget(incline, shifter) == incline

\* lines 279-280: ERG mode
L279 ==
    /\ pc = "l279"
    /\ speed' = "erg"
    /\ targetPosition' = ErgTarget(targetIncline, shifterPosition)
    /\ iter' = [iter EXCEPT !.incline = targetIncline]
    /\ extWrote' = FALSE
    /\ pc' = "l288"
    /\ UNCHANGED calls
    /\ posFrame

\* a shifter term that forgets the shift step
SimShiftNoStep(shifter, step) == shifter

\* line 283: the shifter term of the simulation target
SimShift(shifter, step) == shifter * step

\* line 284: the incline term of the simulation target
SimIncline(incline, mult) == incline * mult

\* line 283: simulation mode, first statement
L283 ==
    /\ pc = "l283"
    /\ targetPosition' = SimShift(shifterPosition, shiftStep)
    /\ iter' = [iter EXCEPT !.shifter = shifterPosition]
    /\ extWrote' = FALSE
    /\ pc' = "l284"
    /\ UNCHANGED <<speed, calls>>
    /\ posFrame

\* line 284: simulation mode, second statement
L284 ==
    /\ pc = "l284"
    /\ targetPosition' = targetPosition + SimIncline(targetIncline, inclineMultiplier)
    /\ iter' = [iter EXCEPT !.incline = targetIncline]
    /\ pc' = "l288"
    /\ UNCHANGED <<speed, calls, extWrote>>
    /\ posFrame

\* lines 288-289: syncMode stops the motion
L288 ==
    /\ pc = "l288"
    /\ IF syncMode
       THEN calls' = Append(calls, Call("stopMove", 0)) /\ pc' = "l291"
       ELSE calls' = calls /\ pc' = "l295a"
    /\ UNCHANGED <<targetPosition, speed, iter, extWrote>>
    /\ posFrame

\* line 291: the driver's position is rebased to targetPosition
L291 ==
    /\ pc = "l291"
    /\ calls' = Append(calls, Call("setCurrentPosition", targetPosition))
    /\ pc' = "l295a"
    /\ UNCHANGED <<targetPosition, speed, iter, extWrote>>
    /\ posFrame

\* line 295, left operand: targetPosition >= minStep
L295a ==
    /\ pc = "l295a"
    /\ pc' = IF targetPosition >= minStep THEN "l295b" ELSE "l297"
    /\ UNCHANGED <<targetPosition, speed, calls, iter, extWrote>>
    /\ posFrame

\* line 295, right operand: targetPosition <= maxStep
L295b ==
    /\ pc = "l295b"
    /\ pc' = IF targetPosition <= maxStep THEN "l296" ELSE "l297"
    /\ UNCHANGED <<targetPosition, speed, calls, iter, extWrote>>
    /\ posFrame

\* line 296: targetPosition is read again for the call
L296 ==
    /\ pc = "l296"
    /\ calls' = Append(calls, Call("moveTo", targetPosition))
    /\ pc' = "l303"
    /\ UNCHANGED <<targetPosition, speed, iter, extWrote>>
    /\ posFrame

\* lines 297-301: the nearest bound
L297 ==
    /\ pc = "l297"
    /\ calls' = Append(calls, Call("moveTo", IF targetPosition <= minStep THEN minStep ELSE maxStep))
    /\ pc' = "l303"
    /\ UNCHANGED <<targetPosition, speed, iter, extWrote>>
    /\ posFrame

\* lines 303-319: the delay and the housekeeping that end the iteration
L303 ==
    /\ pc = "l303"
    /\ pc' = "l275"
    /\ calls' = << >>
    /\ iter' = NoIter
    /\ extWrote' = FALSE
    /\ UNCHANGED <<targetPosition, speed>>
    /\ posFrame

(***************************************************************************)
(* The positioning loop with the shifter interrupts and the writers of     *)
(* mode, incline and target; syncMode stays off.                           *)
(***************************************************************************)
Next ==
    \/ L275 \/ L279 \/ L283 \/ L284 \/ L288 \/ L295a \/ L295b \/ L296 \/ L297 \/ L303
    \/ ShiftUp \/ ShiftDown \/ Tick
    \/ SetERGMode \/ SetTargetIncline \/ SetExternalControl \/ ExternalWrite

Init == InitWith({0}, {1}, {FALSE}, {TRUE})

Spec == Init /\ [][Next]_vars

\* the positioning loop is past the target computation of its iteration
Computed == pc \in {"l288", "l291", "l295a", "l295b", "l296", "l297", "l303"}

\* the arguments of the moveTo calls of this iteration
Moves == {calls[i].arg : i \in {j \in DOMAIN calls : calls[j].op = "moveTo"}}

\* t limited to minStep .. maxStep
Limited(t) == IF t < minStep THEN minStep ELSE IF t > maxStep THEN maxStep ELSE t

\* C1: every moveTo issued by the positioning loop has an argument in
\* minStep .. maxStep, in every mode and whatever the external writer does.
C1_MoveWithinBounds == \A p \in Moves : minStep <= p /\ p <= maxStep

\* C2: in a simulation-mode iteration the target the clamp works on is
\* shifterPosition * shiftStep + targetIncline * inclineMultiplier for the
\* values the iteration read, and the position commanded is that target
\* limited to the step bounds.
C2_SimTarget ==
    (iter.mode = "sim" /\ ~extWrote /\ Computed) =>
        LET t == iter.shifter * shiftStep + iter.incline * inclineMultiplier
        IN  /\ targetPosition = t
            /\ pc = "l303" => calls = <<Call("moveTo", Limited(t))>>

\* C2 witness: the scenario minStep -100, maxStep 100, shifterPosition 50,
\* shiftStep 2, targetIncline 0: target 100, commanded position 100.
C2_Witness ==
    /\ minStep = -100 /\ maxStep = 100 /\ shiftStep = 2
    /\ iter = [mode |-> "sim", shifter |-> 50, incline |-> 0]
    /\ pc = "l303" /\ ~extWrote
    /\ targetPosition = 100
    /\ calls = <<Call("moveTo", 100)>>

\* C3: in an ERG-mode iteration the target is the targetIncline the iteration
\* read, whatever shifterPosition is, and the position commanded is that
\* incline limited to the step bounds.
C3_ErgTarget ==
    (iter.mode = "erg" /\ ~extWrote /\ Computed) =>
        /\ targetPosition = iter.incline
        /\ pc = "l303" => calls = <<Call("moveTo", Limited(iter.incline))>>

\* C3 witness: an ERG iteration, with the shifter away from where it started,
\* has commanded the incline 4 limited to maxStep 3.
C3_Witness ==
    /\ iter.mode = "erg" /\ iter.incline = 4 /\ maxStep = 3
    /\ shifterPosition # cfg.shifter0
    /\ pc = "l303" /\ ~extWrote
    /\ calls = <<Call("moveTo", 3)>>

\* C21: a simulation-mode iteration issues its motion command with the
\* normal speed (the STEPPER_SPEED of line 268) in force, also after ERG mode
\* has been on and off again.
C21_SimMovesAtNormalSpeed ==
    (iter.mode = "sim" /\ pc = "l303" /\ Moves # {}) => speed = "normal"

(***************************************************************************)
(* SS2K::motorStop, called by the other tasks while the positioning loop   *)
(* runs: one step per read of ss2k.targetPosition.                         *)
(***************************************************************************)
stopFrame ==
    /\ UNCHANGED <<cfg, shifterDir, now, shiftVars, posVars, envVars, obsVars, maintVars, tempVars, serVars>>
    /\ UNCHANGED <<scanVars, bleVars, wdVars, loopVars>>

\* line 454: where the release of tension moves to, no bound applied
ReleasePosition(target, step) == target - step * 4

\* lines 451-452: a call starts: the motion is stopped and the driver's
\* position is rebased to ss2k.targetPosition
S451 ==
    /\ spc = "idle"
    /\ \E r \in BOOLEAN : releaseTension' = r
    /\ stopCalls' = <<Call("stopMove", 0), Call("setCurrentPosition", targetPosition)>>
    /\ spc' = "s453"
    /\ stopFrame

\* lines 453-455: with releaseTension the stepper is sent four shift steps
\* below ss2k.targetPosition, read again; the call returns
S453 ==
    /\ spc = "s453"
    /\ stopCalls' = IF releaseTension
                    THEN Append(stopCalls, Call("moveTo", ReleasePosition(targetPosition, shiftStep)))
                    ELSE stopCalls
    /\ spc' = "idle"
    /\ UNCHANGED releaseTension
    /\ stopFrame

(***************************************************************************)
(* motorStop beside the positioning loop in simulation mode and the        *)
(* external writer of ss2k.targetPosition.                                 *)
(***************************************************************************)
NextStop ==
    \/ S451 \/ S453
    \/ L275 \/ L283 \/ L284 \/ L288 \/ L295a \/ L295b \/ L296 \/ L297 \/ L303
    \/ SetExternalControl \/ ExternalWrite

SpecStop == Init /\ [][NextStop]_vars

\* motorStop has returned after commanding a position outside
\* [minStep, maxStep]: line 454 applies no bound
StopReleasedOutOfRange ==
    /\ spc = "idle"
    /\ Len(stopCalls) = 3
    /\ stopCalls[3].op = "moveTo"
    /\ (stopCalls[3].arg < minStep \/ stopCalls[3].arg > maxStep)

\* the release of tension started from the lower bound itself
StopReleasedFromMinStep ==
    /\ StopReleasedOutOfRange
    /\ stopCalls[2] = Call("setCurrentPosition", minStep)
    /\ stopCalls[3] = Call("moveTo", minStep - shiftStep * 4)

\* the two reads of ss2k.targetPosition in one call saw different values
StopReadsDiffer ==
    /\ Len(stopCalls) = 3
    /\ stopCalls[3].arg # ReleasePosition(stopCalls[2].arg, shiftStep)

(***************************************************************************)
(* The positioning loop with syncMode switched on and off, beside the      *)
(* writers of mode, incline and target; no shifter interrupt arrives.      *)
(***************************************************************************)
NextSync ==
    \/ L275 \/ L279 \/ L283 \/ L284 \/ L288 \/ L291 \/ L295a \/ L295b \/ L296 \/ L297 \/ L303
    \/ SetSyncMode \/ SetERGMode \/ SetTargetIncline \/ SetExternalControl \/ ExternalWrite

SpecSync == Init /\ [][NextSync]_vars

\* C19: an iteration that found syncMode set has, when it ends, called
\* stopMove, then setCurrentPosition, then one moveTo to the very position the
\* driver was rebased to, so that nothing travels, whatever that position is.
C19_SyncNoTravel ==
    (pc = "l303" /\ Len(calls) > 0 /\ calls[1].op = "stopMove") =>
        /\ Len(calls) = 3
        /\ calls[2].op = "setCurrentPosition"
        /\ calls[3] = Call("moveTo", calls[2].arg)

(***************************************************************************)
(* Maintenance Supervisor Loop: the shifter check of SS2K::maintenanceLoop *)
(* (lines 190-205), one step per read or write of shared state.            *)
(***************************************************************************)
maintFrame == UNCHANGED <<cfg, shifterDir, now, lastDebounceTime, posVars, envVars, obsVars, tempVars, serVars, supVars>>

\* line 190: has shifterPosition gone up since the last tick?
M190 ==
    /\ mpc = "m190"
    /\ mpc' = IF shifterPosition > lastShifterPosition THEN "m192" ELSE "m197"
    /\ UNCHANGED <<shifterPosition, lastShifterPosition, notified>>
    /\ maintFrame

\* lines 192, 196: the shift up is blocked when ss2k.targetPosition is beyond
\* maxStep; the branch ends in notifyShift
M192 ==
    /\ mpc = "m192"
    /\ mpc' = IF targetPosition > maxStep THEN "m194" ELSE "m205"
    /\ notified' = TRUE
    /\ UNCHANGED <<shifterPosition, lastShifterPosition>>
    /\ maintFrame

\* line 194: the shift is taken back
M194 ==
    /\ mpc = "m194"
    /\ shifterPosition' = lastShifterPosition
    /\ mpc' = "m205"
    /\ UNCHANGED <<lastShifterPosition, notified>>
    /\ maintFrame

\* line 197: has shifterPosition gone down since the last tick?
M197 ==
    /\ mpc = "m197"
    /\ mpc' = IF shifterPosition < lastShifterPosition THEN "m199" ELSE "m205"
    /\ UNCHANGED <<shifterPosition, lastShifterPosition, notified>>
    /\ maintFrame

\* lines 199, 203: the shift down is blocked when ss2k.targetPosition is below
\* minStep; the branch ends in notifyShift
M199 ==
    /\ mpc = "m199"
    /\ mpc' = IF targetPosition < minStep THEN "m201" ELSE "m205"
    /\ notified' = TRUE
    /\ UNCHANGED <<shifterPosition, lastShifterPosition>>
    /\ maintFrame

\* line 201: the shift is taken back
M201 ==
    /\ mpc = "m201"
    /\ shifterPosition' = lastShifterPosition
    /\ mpc' = "m205"
    /\ UNCHANGED <<lastShifterPosition, notified>>
    /\ maintFrame

\* line 205: the snapshot is updated; the rest of the tick and the delay of
\* line 189 follow
M205 ==
    /\ mpc = "m205"
    /\ lastShifterPosition' = shifterPosition
    /\ mpc' = "m190"
    /\ notified' = FALSE
    /\ UNCHANGED shifterPosition
    /\ maintFrame

(***************************************************************************)
(* The maintenance loop's shifter check beside the shifter interrupts, the *)
(* positioning loop in simulation mode and the callers of motorStop.       *)
(***************************************************************************)
NextMaint ==
    \/ M190 \/ M192 \/ M194 \/ M197 \/ M199 \/ M201 \/ M205
    \/ ShiftUp \/ ShiftDown \/ Tick
    \/ L275 \/ L283 \/ L284 \/ L288 \/ L295a \/ L295b \/ L296 \/ L297 \/ L303
    \/ S451 \/ S453

SpecMaint == Init /\ [][NextMaint]_vars

\* the target the positioning loop computes from the current shifterPosition
WouldBeTarget == shifterPosition * shiftStep + targetIncline * inclineMultiplier

\* C7: on a tick that finds shifterPosition above lastShifterPosition with a
\* would-be target above maxStep, the loop goes on to set shifterPosition
\* back (line 194), whatever ss2k.targetPosition holds at that moment; and
\* likewise (line 201) for a decrease with a would-be target below minStep.
C7_ShiftBeyondBoundRejected ==
    [][/\ (/\ mpc = "m192" /\ mpc' # "m192"
           /\ shifterPosition > lastShifterPosition
           /\ WouldBeTarget > maxStep) => mpc' = "m194"
       /\ (/\ mpc = "m199" /\ mpc' # "m199"
           /\ shifterPosition < lastShifterPosition
           /\ WouldBeTarget < minStep) => mpc' = "m201"]_vars

\* C18: the snapshot of line 205 takes in a shifterPosition different from
\* lastShifterPosition only in a tick that saw the difference at line 190 or
\* 197 (and so went through the bounds check and notifyShift); a handler
\* write landing between the comparison and the snapshot is not absorbed
\* unchecked.
C18_NoUncheckedAbsorption ==
    [][(/\ mpc = "m205" /\ mpc' = "m190"
        /\ shifterPosition # lastShifterPosition) => notified]_vars

(***************************************************************************)
(* Thermal Guard: SS2K::checkDriverTemperature                             *)
(***************************************************************************)
Temps == (THROTTLE_TEMP - 1) .. (THROTTLE_TEMP + TempSpan)

\* line 437: the value stored in the uint8_t throttledPower
ThrottledPower(temp, scaler) == ((THROTTLE_TEMP - temp) + scaler) % Uint8Range

\* a restore test that includes the threshold itself
AtOrUnderThrottleTemp(temp) == temp <= THROTTLE_TEMP

\* line 441: the test of the restore branch
UnderThrottleTemp(temp) == temp < THROTTLE_TEMP

\* The body of one invocation.  temperatureRead() is called at line 436,
\* again at line 437 and, when the first test fails, again at line 441:
\* t1, t2, t3.
checkDriverTemperature(t1, t2, t3) ==
    /\ IF t1 > THROTTLE_TEMP
       THEN /\ irun' = ThrottledPower(t2, pwrScaler)
            /\ overTemp' = TRUE
            /\ thermo' = [temp |-> t2, applied |-> "throttled"]
       ELSE IF UnderThrottleTemp(t3)
       THEN /\ irun' = IF overTemp THEN pwrScaler ELSE irun
            /\ overTemp' = FALSE
            /\ thermo' = [temp |-> t3, applied |-> IF overTemp THEN "restored" ELSE "none"]
       ELSE /\ UNCHANGED <<irun, overTemp>>
            /\ thermo' = [temp |-> t3, applied |-> "none"]
    /\ UNCHANGED pwrScaler

\* One invocation.
CheckDriverTemperature ==
    /\ \E t1, t2, t3 \in Temps : checkDriverTemperature(t1, t2, t3)
    /\ UNCHANGED <<cfg, shifterDir, now, shiftVars, posVars, envVars, obsVars, maintVars, serVars, supVars>>

NextTemp == CheckDriverTemperature

InitTemp == InitWith({0}, 1 .. MaxPwrScaler, {FALSE}, {TRUE})

SpecTemp == InitTemp /\ [][NextTemp]_vars

\* C10: of two successive throttled settings made from temperatures above
\* THROTTLE_TEMP, the one made from the higher temperature is strictly lower,
\* and every such setting is below the nominal pwrScaler.
C10_ThrottleDecreasing ==
    [][(thermo'.applied = "throttled" /\ thermo'.temp > THROTTLE_TEMP) =>
        /\ irun' < pwrScaler
        /\ (/\ thermo.applied = "throttled"
            /\ thermo.temp > THROTTLE_TEMP
            /\ thermo.temp < thermo'.temp) => irun' < irun]_vars

\* C11 as stated: an invocation that finds the over-temperature flag set and
\* the temperature at or under THROTTLE_TEMP applies pwrScaler and clears the
\* flag.
C11_Original ==
    [][(/\ overTemp
        /\ thermo'.applied # "throttled"
        /\ thermo'.temp <= THROTTLE_TEMP) => (irun' = pwrScaler /\ ~overTemp')]_vars

\* C11 amended: an invocation that does not throttle and finds the flag set and
\* the temperature strictly under THROTTLE_TEMP applies pwrScaler and clears
\* the flag; one that finds the flag clear applies nothing; one that reads
\* THROTTLE_TEMP itself (or more) leaves the current limit and the flag as
\* they are.
C11_RestoreOnceBelow ==
    [][thermo'.applied # "throttled" =>
        /\ (overTemp /\ thermo'.temp < THROTTLE_TEMP) =>
               (irun' = pwrScaler /\ ~overTemp' /\ thermo'.applied = "restored")
        /\ ~overTemp => (irun' = irun /\ ~overTemp' /\ thermo'.applied = "none")
        /\ thermo'.temp >= THROTTLE_TEMP =>
               (irun' = irun /\ overTemp' = overTemp /\ thermo'.applied = "none")]_vars

\* C11 witness: after throttling, an invocation below the threshold has put
\* the nominal limit back and cleared the flag.
C11_Witness ==
    /\ thermo = [temp |-> THROTTLE_TEMP - 1, applied |-> "restored"]
    /\ irun = pwrScaler /\ ~overTemp

(***************************************************************************)
(* Held-shifter rescan gesture: SS2K::scanIfShiftersHeld                   *)
(***************************************************************************)
\* line 378: has scanDelayTime passed since scanDelayStart?
CooldownElapsed(t, start) == (t - start) >= ScanDelayTime

\* The body of one invocation at millis() = t; held is the result of the two
\* digitalReads of line 374 (both pins LOW).
scanIfShiftersHeld(held, t) ==
    LET scans == held /\ shiftersHoldForScan < 1 /\ CooldownElapsed(t, scanDelayStart)
    IN  /\ shiftersHoldForScan' =
               IF ~held THEN shiftersHoldForScan
               ELSE IF shiftersHoldForScan < 1 THEN SHIFTERS_HOLD_FOR_SCAN
               ELSE shiftersHoldForScan - 1
        /\ scanDelayStart' = IF scans THEN scanDelayStart + ScanDelayTime ELSE scanDelayStart
        /\ holdRun' = IF ~held THEN 0
                      ELSE IF holdRun > SHIFTERS_HOLD_FOR_SCAN THEN holdRun
                      ELSE holdRun + 1
        /\ scanEv' = [held |-> held, scanned |-> scans]
        /\ lastScan' = IF scans THEN t ELSE lastScan
        /\ prevScan' = IF scans THEN lastScan ELSE prevScan

\* One invocation from the maintenance loop, some time after the last one.
ScanIfShiftersHeld ==
    /\ \E t \in (now + 1) .. MaxUptime, upLow, downLow \in BOOLEAN :
           /\ now' = t
           /\ scanIfShiftersHeld(upLow /\ downLow, t)
    /\ UNCHANGED <<cfg, shifterDir, shiftVars, posVars, envVars, obsVars, maintVars, tempVars, serVars>>
    /\ UNCHANGED <<bleVars, wdVars, loopVars, stopVars>>

NextScan == ScanIfShiftersHeld

SpecScan == Init /\ [][NextScan]_vars

\* C12: an invocation starts a scan only when it is at least the
\* SHIFTERS_HOLD_FOR_SCAN-th in a row to find both shifters held; holds before
\* a release do not count.
C12_ScanOnlyAfterSustainedHold ==
    scanEv.scanned => holdRun >= SHIFTERS_HOLD_FOR_SCAN

\* C13: any two scans started by scanIfShiftersHeld are at least scanDelayTime
\* apart.
C13_ScansCooldownApart ==
    prevScan >= 0 => lastScan - prevScan >= ScanDelayTime

(***************************************************************************)
(* Wireless Reconnect Check: SS2K::checkBLEReconnect                       *)
(***************************************************************************)
\* what userConfig.getconnectedHeartMonitor / getconnectedPowerMeter return:
\* "any", "none" or the name of a device
PeerNames == {"any", "none", "device"}

\* lines 505-507, with the grouping C++ gives the condition: && binds tighter
\* than ||, so the heart-rate test stands alone and the counter test belongs
\* to the power-meter test
ReconnectDue(hr, pm, connectedHR, connectedPM, check) ==
    \/ (hr # "any" /\ ~connectedHR)
    \/ /\ (pm # "any" /\ ~connectedPM)
       /\ (pm # "none" /\ hr # "none")
       /\ check >= BLE_RECONNECT_INTERVAL

\* the configurations and connection states of the two sensor roles
PeerStates == [hr : PeerNames, pm : PeerNames, connectedHR : BOOLEAN, connectedPM : BOOLEAN]

\* the user configures another sensor, or a sensor connects or disconnects
PeerChange ==
    /\ \E p \in PeerStates \ {peers} : peers' = p
    /\ UNCHANGED <<bleCheck, bleSince, bleEv>>
    /\ UNCHANGED <<cfg, shifterDir, now, shiftVars, posVars, envVars, obsVars, maintVars, tempVars, serVars>>
    /\ UNCHANGED <<scanVars, wdVars, loopVars, stopVars>>

\* The body of one invocation.
checkBLEReconnect ==
    LET due == ReconnectDue(peers.hr, peers.pm, peers.connectedHR, peers.connectedPM, bleCheck)
    IN  /\ bleCheck' = (IF due THEN 0 ELSE bleCheck) + 1
        /\ bleSince' = IF due THEN 0
                       ELSE IF bleSince < 0 \/ bleSince >= BLE_RECONNECT_INTERVAL THEN bleSince
                       ELSE bleSince + 1
        /\ bleEv' = [scanned |-> due, check |-> bleCheck,
                     gap |-> IF due /\ bleSince >= 0 THEN bleSince + 1 ELSE -1]
        /\ UNCHANGED peers

\* One invocation from the maintenance loop; the counter is followed up to
\* MaxBleCheck.
CheckBLEReconnect ==
    /\ \/ bleCheck < MaxBleCheck
       \/ ReconnectDue(peers.hr, peers.pm, peers.connectedHR, peers.connectedPM, bleCheck)
    /\ checkBLEReconnect
    /\ UNCHANGED <<cfg, shifterDir, now, shiftVars, posVars, envVars, obsVars, maintVars, tempVars, serVars>>
    /\ UNCHANGED <<scanVars, wdVars, loopVars, stopVars>>

NextBle == CheckBLEReconnect \/ PeerChange

SpecBle == Init /\ [][NextBle]_vars

\* C14: an invocation starts a reconnect scan only when it finds the counter
\* at BLE_RECONNECT_INTERVAL or more, and at least BLE_RECONNECT_INTERVAL
\* invocations after the one that started the scan before.
C14_ReconnectInterval ==
    bleEv.scanned =>
        /\ bleEv.check >= BLE_RECONNECT_INTERVAL
        /\ bleEv.gap >= 0 => bleEv.gap >= BLE_RECONNECT_INTERVAL

(***************************************************************************)
(* Auxiliary Serial Framer: SS2K::checkSerial                              *)
(***************************************************************************)
RECURSIVE FindHeader(_, _)
\* lines 467-468: the first position from i on that holds HEADER, 0 if none
\* (positions count from 1)
FindHeader(data, i) ==
    IF i > Len(data) THEN 0
    ELSE IF data[i] = HEADER THEN i
    ELSE FindHeader(data, i + 1)

RECURSIVE ScanFooterExclusive(_, _)
\* a scan that leaves k on the footer instead of past it
ScanFooterExclusive(data, k) ==
    IF k > Len(data) THEN Len(data)
    ELSE IF data[k] = FOOTER THEN k - 1
    ELSE ScanFooterExclusive(data, k + 1)

RECURSIVE ScanFooter(_, _)
\* lines 469-474: the last position copied: that of the first FOOTER from k on
\* (k++ steps past it), or the last position read when the loop runs out
ScanFooter(data, k) ==
    IF k > Len(data) THEN Len(data)
    ELSE IF data[k] = FOOTER THEN k
    ELSE ScanFooter(data, k + 1)

\* lines 467-483: the payloads handed to collectAndSet for the bytes read
Payloads(data) ==
    LET i == FindHeader(data, 1)
    IN  IF i = 0 THEN << >> ELSE <<SubSeq(data, i, ScanFooter(data, i))>>

serFrame == UNCHANGED <<cfg, shifterDir, now, shiftVars, posVars, envVars, obsVars, maintVars, tempVars, supVars>>

\* A byte arrives on the auxiliary port.  What the last poll read and did is
\* dead by then (every read overwrites the buffer and its length).
Receive ==
    /\ Len(auxAvail) < MaxRead
    /\ \E b \in Bytes : auxAvail' = Append(auxAvail, b)
    /\ auxData' = << >>
    /\ handed' = << >>
    /\ written' = << >>
    /\ serialDone' = FALSE
    /\ UNCHANGED <<pelotonTx, txCheck, alternate, polls, lastFrame>>
    /\ serFrame

\* a poll counter that reception leaves alone
TxCheckKept(reads, tx) == tx

\* line 461: txCheck after the receive part of a poll
TxCheckAfterRead(reads, tx) == IF reads THEN TX_CHECK_INTERVAL ELSE tx

\* a transmitter that always sends the cadence query
QueryFrameCadence(alt) == "peloton_rq_cad"

\* lines 487-495: the query frame written, all PELOTON_RQ_SIZE bytes of it
QueryFrame(alt) == IF alt THEN "peloton_rq_watts" ELSE "peloton_rq_cad"

\* The body of one poll.
checkSerial ==
    LET reads == Len(auxAvail) >= MinAvailable
        tx == TxCheckAfterRead(reads, txCheck)
        sends == pelotonTx /\ tx >= TX_CHECK_INTERVAL
    IN  /\ auxData' = IF reads THEN auxAvail ELSE << >>
        /\ auxAvail' = IF reads THEN << >> ELSE auxAvail
        /\ handed' = IF reads THEN Payloads(auxAvail) ELSE << >>
        /\ IF sends
           THEN /\ written' = <<QueryFrame(alternate)>>
                /\ alternate' = ~alternate
                /\ txCheck' = 0
           ELSE /\ written' = << >>
                /\ alternate' = alternate
                /\ txCheck' = IF pelotonTx THEN tx + 1 ELSE tx
        /\ polls' = IF sends THEN 0
                    ELSE IF polls < 0 \/ polls > TX_CHECK_INTERVAL THEN polls
                    ELSE polls + 1
        /\ lastFrame' = IF sends THEN QueryFrame(alternate) ELSE lastFrame
        /\ serialDone' = TRUE
        /\ UNCHANGED pelotonTx

\* One poll.
CheckSerial == checkSerial /\ serFrame

NextSerial == Receive \/ CheckSerial

InitSerial == InitWith({0}, {1}, BOOLEAN, {TRUE})

SpecSerial == InitSerial /\ [][NextSerial]_vars

\* checkSerial has just read the buffer auxData
HasRead == serialDone /\ Len(auxData) >= MinAvailable

\* i is the first position of auxData holding the start sentinel
FirstHeader(i) == auxData[i] = HEADER /\ \A j \in 1 .. (i - 1) : auxData[j] # HEADER

\* k is the first position at or after i holding the end sentinel
FirstFooterFrom(i, k) == k >= i /\ auxData[k] = FOOTER /\ \A j \in i .. (k - 1) : auxData[j] # FOOTER

\* C8: when the bytes read hold a start sentinel, first at i, and an end
\* sentinel at or after it, first at k, exactly one payload is handed on and
\* it is the slice from i to k inclusive.
C8_FrameIsSlice ==
    HasRead =>
        \A i, k \in DOMAIN auxData :
            (FirstHeader(i) /\ FirstFooterFrom(i, k)) => handed = <<SubSeq(auxData, i, k)>>

\* C8 witness: a read with a byte before the frame, a three-byte frame and a
\* second frame after it has handed on the first frame alone.
C8_Witness ==
    /\ HasRead
    /\ auxData = <<"other", HEADER, "other", FOOTER, HEADER, FOOTER, "other", "other">>
    /\ handed = << <<HEADER, "other", FOOTER>> >>

\* C9: when the bytes read hold a start sentinel and no end sentinel at or
\* after it, nothing is handed on.
C9_NoFooterNoFrame ==
    (/\ HasRead
     /\ \E i \in DOMAIN auxData :
            FirstHeader(i) /\ \A k \in i .. Len(auxData) : auxData[k] # FOOTER)
    => handed = << >>

\* a step of checkSerial (a byte arriving clears serialDone)
PollStep == serialDone'

\* C16 as stated: a poll that writes a query frame after an earlier one comes
\* at least TX_CHECK_INTERVAL counted polls after it, bytes received or not.
C16_Original ==
    [][(PollStep /\ written' # << >> /\ polls >= 0) => polls >= TX_CHECK_INTERVAL]_vars

\* C16 amended: with transmission enabled, a poll writes a query frame exactly
\* when it reads sensor bytes (at least MinAvailable waiting), or no frame has
\* been written yet, or TX_CHECK_INTERVAL polls have been counted since the
\* last frame.
C16_TxOnReadOrInterval ==
    [][(PollStep /\ pelotonTx) =>
        (written' # << >> <=>
            \/ Len(auxAvail) >= MinAvailable
            \/ polls < 0
            \/ polls >= TX_CHECK_INTERVAL)]_vars

\* C16 witness: a poll that read a buffer has written the power query, the
\* second frame of a pair.
C16_Witness ==
    /\ pelotonTx /\ HasRead
    /\ written = <<"peloton_rq_watts">>

\* C17: a transmitting poll writes one frame, different from the frame written
\* last, and the first frame ever written is the cadence query.
C17_FramesAlternate ==
    [][(PollStep /\ written' # << >>) =>
        /\ Len(written') = 1
        /\ written'[1] \in {"peloton_rq_cad", "peloton_rq_watts"}
        /\ written'[1] # lastFrame
        /\ lastFrame = "none" => written'[1] = "peloton_rq_cad"]_vars

\* C17 witness: after the power query, with a buffer read by this poll, the
\* cadence query has been written again.
C17_Witness ==
    /\ HasRead /\ handed # << >>
    /\ written = <<"peloton_rq_cad">> /\ lastFrame = "peloton_rq_cad"
    /\ polls = 0 /\ alternate

(***************************************************************************)
(* Maintenance Supervisor Loop: one whole tick of SS2K::maintenanceLoop    *)
(* (lines 189-246), with every function it calls.                          *)
(***************************************************************************)
\* lines 190-205 in one piece: the shifter check and the snapshot
shifterCheck ==
    LET kept == IF shifterPosition > lastShifterPosition /\ targetPosition > maxStep
                THEN lastShifterPosition
                ELSE IF shifterPosition < lastShifterPosition /\ targetPosition < minStep
                THEN lastShifterPosition
                ELSE shifterPosition
    IN  /\ shifterPosition' = kept
        /\ lastShifterPosition' = kept
        /\ UNCHANGED <<mpc, notified>>

\* lines 215-227: the scan watchdog at millis() = t; radioScanning is what
\* NimBLEDevice::getScan()->isScanning() returns
scanWatchdog(t, radioScanning) ==
    IF (t - intervalTimer2) > WatchdogPeriod
    THEN /\ isScanning' = IF radioScanning THEN ~isScanning ELSE isScanning
         /\ intervalTimer2' = t
         /\ wd' = [seen |-> radioScanning, prevSeen |-> wd.seen,
                   stopped |-> radioScanning /\ isScanning]
    ELSE UNCHANGED <<intervalTimer2, isScanning, wd>>

\* a sub-cadence test that passes one tick earlier
GroupDueAtLimit(counter) == counter >= LoopCounterLimit

\* line 228: is the slow group due?
GroupDue(counter) == counter > LoopCounterLimit

\* lines 229-231: the functions of the slow group, in the order called
SlowGroup == <<"scanIfShiftersHeld", "checkDriverTemperature", "checkBLEReconnect">>

\* One tick: the delay of line 189, then the body of the loop.
MaintenanceTick ==
    /\ now < MaxUptime
    /\ now' = now + 1
    /\ ticks' = ticks + 1
    /\ shifterCheck
    /\ \E radioScanning \in BOOLEAN : scanWatchdog(now', radioScanning)
    /\ IF GroupDue(loopCounter)
       THEN /\ \E upLow, downLow \in BOOLEAN : scanIfShiftersHeld(upLow /\ downLow, now')
            /\ \E t1, t2, t3 \in Temps : checkDriverTemperature(t1, t2, t3)
            /\ checkBLEReconnect
       ELSE UNCHANGED <<scanVars, tempVars, bleVars>>
    /\ IF auxSerialTxPin THEN checkSerial ELSE UNCHANGED serVars
    /\ loopCounter' = (IF GroupDue(loopCounter) THEN 0 ELSE loopCounter) + 1
    /\ ran' = (IF GroupDue(loopCounter) THEN SlowGroup ELSE << >>)
                 \o (IF auxSerialTxPin THEN <<"checkSerial">> ELSE << >>)
    /\ UNCHANGED <<cfg, shifterDir, lastDebounceTime, posVars, envVars, obsVars, auxSerialTxPin, stopVars>>

\* the maintenance loop on its own: no shifter interrupt arrives
NextLoop == MaintenanceTick

InitLoop == InitWith({0}, {1}, {TRUE}, BOOLEAN)

SpecLoop == InitLoop /\ [][NextLoop]_vars

\* C15: the watchdog stops the scan only on a check that saw the radio
\* scanning when the check before saw it scanning too; scanning seen, not
\* seen, and seen again is not stopped.
C15_StopOnConsecutiveChecks ==
    wd.stopped => wd.prevSeen

\* the functions a tick calls when the slow group is due (runs) or not
TickCalls(runs) ==
    (IF runs THEN SlowGroup ELSE << >>) \o (IF auxSerialTxPin THEN <<"checkSerial">> ELSE << >>)

\* the ticks between two runs of the slow group
GroupPeriod == LoopCounterLimit + 1

\* C20 as stated: the tick numbered n from task start (the first tick is 1)
\* runs the slow group, whole and in order, exactly when n is a multiple of 5,
\* and checkSerial on every tick when the auxiliary port is configured.
C20_Original ==
    ticks >= 1 => ran = TickCalls(ticks % GroupPeriod = 0)

\* C20 amended: the slow group runs on ticks 6, 11, 16, ...: on the first
\* tick that finds five ticks counted, and every five ticks from there.
C20_EveryFifthTickFromSixth ==
    ticks >= 1 => ran = TickCalls(ticks > 1 /\ ticks % GroupPeriod = 1)

\* C20 witness: the eleventh tick has run the group again, five ticks after
\* the sixth, and then checkSerial.
C20_Witness ==
    /\ ticks = 2 * GroupPeriod + 1
    /\ loopCounter = 1
    /\ ran = SlowGroup \o <<"checkSerial">>

(***************************************************************************)
(* The shifter handlers alone with the clock and the ERG switch.           *)
(***************************************************************************)
NextShift == ShiftUpTraced \/ ShiftDownTraced \/ Tick \/ SetERGMode

InitShift == InitWith({0, 1}, {1}, {FALSE}, {TRUE})

SpecShift == InitShift /\ [][NextShift]_vars

\* the fields of rtConfig and ss2k other than shifterPosition and lastDebounceTime
otherState == <<cfg, shifterDir, targetIncline, ergMode, targetPosition, lastShifterPosition,
                externalControl, syncMode, speed, calls>>

\* a step of shiftUp or shiftDown (a handler that repeats the last interrupt at
\* the same millis() with the same outcome changes nothing)
HandlerStep == trig' # trig

\* C4: a trigger whose debounce window has elapsed, outside ERG mode, with the
\* pin read back low, changes shifterPosition by exactly one: shiftUp by
\* 2*shifterDir - 1, shiftDown by the opposite; any other trigger leaves
\* shifterPosition as it was.
C4_ShiftByOne ==
    [][HandlerStep =>
        LET accepted == /\ (now - lastDebounceTime) > DebounceDelay
                        /\ ~ergMode
                        /\ ~trig'.pinHigh
            sign == IF shifterDir = 1 THEN 1 ELSE -1
        IN  IF accepted
            THEN /\ trig'.h = "up" => shifterPosition' = shifterPosition + sign
                 /\ trig'.h = "down" => shifterPosition' = shifterPosition - sign
            ELSE shifterPosition' = shifterPosition]_vars

\* C4 witness: with the direction flag set, an accepted shiftUp has raised
\* shifterPosition by one.
C4_Witness ==
    /\ trig.h = "up" /\ trig.out = "accepted" /\ shifterDir = 1
    /\ shifterPosition = cfg.shifter0 + 1

\* C5 as stated: a trigger less than debounceDelay after the preceding trigger
\* does not change shifterPosition, whether the preceding trigger was accepted
\* or found spurious.
C5_Original ==
    [][(/\ HandlerStep
        /\ trig.out \in {"accepted", "spurious"}
        /\ now - trig.at < DebounceDelay) => shifterPosition' = shifterPosition]_vars

\* C5 amended: a trigger less than debounceDelay after the last trigger that
\* changed shifterPosition changes neither shifterPosition nor lastDebounceTime.
C5_NoShiftAfterAccepted ==
    [][(/\ HandlerStep
        /\ lastAccept >= 0
        /\ now - lastAccept < DebounceDelay) => UNCHANGED <<shifterPosition, lastDebounceTime>>]_vars

\* C5 witness: a trigger arrived less than debounceDelay after an accepted one.
C5_Witness ==
    /\ trig.out = "bounced" /\ lastAccept >= 0
    /\ trig.at >= lastAccept /\ trig.at - lastAccept < DebounceDelay

\* C6: in ERG mode a shifter interrupt leaves rtConfig and ss2k as they were,
\* lastDebounceTime included.
C6_ErgShiftNoOp ==
    [][(HandlerStep /\ ergMode) =>
        UNCHANGED <<shifterPosition, lastDebounceTime, otherState>>]_vars
====
